---- MODULE Spec2Model ----
(***************************************************************************)
(* Verification model of panini-nlp:                                       *)
(*   panini_nlp/sounds.py            the phoneme registry                  *)
(*   panini_nlp/text/processing.py   decompose / recompose                 *)
(*   panini_nlp/sandhi.py            SandhiEngine.apply / explain          *)
(*   panini_nlp/chandas.py           nashtam / uddishtam                   *)
(*   panini_nlp/compression.py       MeruCompressor.compress / decompress  *)
(*   panini_nlp/validator.py         SanskritValidator.validate            *)
(*                                                                         *)
(* A text is a sequence of glyphs.  A glyph is written by the name of the  *)
(* registry constant whose symbol it is ("A" for the glyph of phoneme A,   *)
(* "KA", "VIRAMA", ...); the dependent-vowel sign (matra) of a vowel X is  *)
(* written "mX".  "SPACE" is a whitespace glyph; "DIGIT" and "PLUS" are    *)
(* glyphs that are not in the registry.                                    *)
(***************************************************************************)
EXTENDS Integers, Sequences, FiniteSets, TLC

VARIABLES
    sutras,      \* heap of Sutra objects: object reference -> its fields
    _RULES,       \* sandhi._RULES: list of references to Sutra objects
    rules,       \* SandhiEngine.rules: the engine's own list of references
    term1,       \* first argument of the apply call under study
    term2,       \* second argument of the apply call under study
    result,      \* what the last apply(term1, term2) returned
    text,        \* argument of decompose / explain
    phonemes,    \* what decompose(text) returned
    recomposed,  \* what recompose(phonemes) returned
    hints,       \* what the last explain(text) returned
    listed,      \* what the last list_rules() returned
    seen,        \* the callers' record: arguments of apply -> what it first returned
    seenHints,   \* the callers' record: argument of explain -> what it first returned
    repeated,    \* the last call repeated the arguments of an earlier call
    calls,       \* number of calls made so far
    i,           \* decompose's scan index (1-based: the glyph to scan next)
    at,          \* the index decompose's last loop iteration scanned
    emitted,     \* the phonemes decompose's last loop iteration appended
    scanRaised,  \* the exception decompose's last loop iteration raised
    length,      \* argument length of nashtam
    pattern,     \* argument pattern of uddishtam
    index,       \* argument index of nashtam
    indexOfPattern,   \* what uddishtam(pattern) returned
    patternOfIndex,   \* what nashtam(index, length) returned
    patternRestored,  \* what nashtam(uddishtam(pattern), length) returned
    indexRestored,    \* what uddishtam(nashtam(index, length)) returned
    data,        \* argument data of compress
    blob,        \* what compress(data) returned
    restored,    \* what decompress(blob) returned
    validation,  \* what validate(text) returned
    sandhiCalls  \* the calls validate made on its SandhiEngine, in order

\* Module state and the engine's fields, with the callers' records of its calls.
engineVars == <<sutras, _RULES, rules, term1, term2, result, hints, listed,
                seen, seenHints, repeated, calls>>
\* decompose / recompose on a text.
textVars == <<text, phonemes, recomposed>>
\* decompose's loop.
scanVars == <<i, at, emitted, scanRaised>>
\* ChandasAnalyzer's index and pattern conversions.
chandasVars == <<length, pattern, index, indexOfPattern, patternOfIndex,
                 patternRestored, indexRestored>>
\* MeruCompressor.
compressionVars == <<data, blob, restored>>
\* SanskritValidator.validate.
validatorVars == <<validation, sandhiCalls>>

vars == <<engineVars, textVars, scanVars, chandasVars, compressionVars,
          validatorVars>>

\* ------------------------------------------------------------------ bounds

\* Longest stem (the glyphs of a term away from the junction).
MaxStem == 1
\* Longest text whose decomposition is followed one loop iteration at a time.
MaxScanLen == 3
\* Longest text handed to validate.
MaxValidated == 3
\* Most rows of a dataset handed to compress.
MaxRows == 3
\* Longest binary pattern converted to an index and back.
MaxBits == 4
\* Longest text handed to decompose on its own.
MaxTextLen == 4
\* Most calls made on one engine.
MaxCalls == 4
\* Longest text handed to explain alone.
MaxHintLen == 3

\* ---------------------------------------------------------------- sounds.py

\* Python's None.
None == "None"

Phoneme(symbol, is_vowel, is_voiced, place, as_matra) ==
    [symbol |-> symbol, is_vowel |-> is_vowel, is_voiced |-> is_voiced,
     place |-> place, as_matra |-> as_matra]

A  == Phoneme("A",  TRUE, TRUE, "kantha", "")
AA == Phoneme("AA", TRUE, TRUE, "kantha", "mAA")
I  == Phoneme("I",  TRUE, TRUE, "talu", "mI")
II == Phoneme("II", TRUE, TRUE, "talu", "mII")
U  == Phoneme("U",  TRUE, TRUE, "ostha", "mU")
UU == Phoneme("UU", TRUE, TRUE, "ostha", "mUU")
R  == Phoneme("R",  TRUE, TRUE, "murdha", "mR")
RR == Phoneme("RR", TRUE, TRUE, "murdha", "mRR")
L  == Phoneme("L",  TRUE, TRUE, "danta", "mL")

\* A variant of e with the place of a and aa alone.
E_Guttural == Phoneme("E", TRUE, TRUE, "kantha", "mE")
E  == Phoneme("E",  TRUE, TRUE, "kantha-talu", "mE")
AI == Phoneme("AI", TRUE, TRUE, "kantha-talu", "mAI")
O  == Phoneme("O",  TRUE, TRUE, "kantha-ostha", "mO")
AU == Phoneme("AU", TRUE, TRUE, "kantha-ostha", "mAU")

KA  == Phoneme("KA",  FALSE, FALSE, "kantha", None)
KHA == Phoneme("KHA", FALSE, FALSE, "kantha", None)
GA  == Phoneme("GA",  FALSE, TRUE, "kantha", None)
GHA == Phoneme("GHA", FALSE, TRUE, "kantha", None)
NGA == Phoneme("NGA", FALSE, TRUE, "kantha", None)

CA  == Phoneme("CA",  FALSE, FALSE, "talu", None)
CHA == Phoneme("CHA", FALSE, FALSE, "talu", None)
JA  == Phoneme("JA",  FALSE, TRUE, "talu", None)
JHA == Phoneme("JHA", FALSE, TRUE, "talu", None)
NYA == Phoneme("NYA", FALSE, TRUE, "talu", None)

TA  == Phoneme("TA",  FALSE, FALSE, "murdha", None)
THA == Phoneme("THA", FALSE, FALSE, "murdha", None)
DA  == Phoneme("DA",  FALSE, TRUE, "murdha", None)
DHA == Phoneme("DHA", FALSE, TRUE, "murdha", None)
NA  == Phoneme("NA",  FALSE, TRUE, "murdha", None)

TA_D  == Phoneme("TA_D",  FALSE, FALSE, "danta", None)
THA_D == Phoneme("THA_D", FALSE, FALSE, "danta", None)
DA_D  == Phoneme("DA_D",  FALSE, TRUE, "danta", None)
DHA_D == Phoneme("DHA_D", FALSE, TRUE, "danta", None)
NA_D  == Phoneme("NA_D",  FALSE, TRUE, "danta", None)

PA  == Phoneme("PA",  FALSE, FALSE, "ostha", None)
PHA == Phoneme("PHA", FALSE, FALSE, "ostha", None)
BA  == Phoneme("BA",  FALSE, TRUE, "ostha", None)
BHA == Phoneme("BHA", FALSE, TRUE, "ostha", None)
MA  == Phoneme("MA",  FALSE, TRUE, "ostha", None)

YA == Phoneme("YA", FALSE, TRUE, "talu", None)
RA == Phoneme("RA", FALSE, TRUE, "murdha", None)
LA == Phoneme("LA", FALSE, TRUE, "danta", None)
VA == Phoneme("VA", FALSE, TRUE, "danta-ostha", None)

SHA == Phoneme("SHA", FALSE, FALSE, "talu", None)
SSA == Phoneme("SSA", FALSE, FALSE, "murdha", None)
SA  == Phoneme("SA",  FALSE, FALSE, "danta", None)
HA  == Phoneme("HA",  FALSE, TRUE, "kantha", None)

VIRAMA   == Phoneme("VIRAMA",   FALSE, FALSE, "none", None)
ANUSVARA == Phoneme("ANUSVARA", FALSE, TRUE, "nasika", None)
VISARGA  == Phoneme("VISARGA",  FALSE, FALSE, "kantha", None)

ALL_PHONEMES ==
    << A, AA, I, II, U, UU, R, RR, L, E, AI, O, AU,
       KA, KHA, GA, GHA, NGA,
       CA, CHA, JA, JHA, NYA,
       TA, THA, DA, DHA, NA,
       TA_D, THA_D, DA_D, DHA_D, NA_D,
       PA, PHA, BA, BHA, MA,
       YA, RA, LA, VA,
       SHA, SSA, SA, HA,
       VIRAMA, ANUSVARA, VISARGA >>

\* Python truthiness of an Optional[str]: None and "" are false.
Truthy(s) == s # None /\ s # ""

PhonemeSet == {ALL_PHONEMES[k] : k \in DOMAIN ALL_PHONEMES}

\* {p.symbol: p for p in ALL_PHONEMES}: a later entry overwrites an earlier one.
SYMBOL_MAP ==
    [s \in {p.symbol : p \in PhonemeSet} |->
        LET k == CHOOSE k \in DOMAIN ALL_PHONEMES :
                   /\ ALL_PHONEMES[k].symbol = s
                   /\ \A j \in DOMAIN ALL_PHONEMES :
                        ALL_PHONEMES[j].symbol = s => j <= k
        IN  ALL_PHONEMES[k]]

\* {p.as_matra: p for p in ALL_PHONEMES if p.is_vowel and p.as_matra}
MATRA_MAP ==
    [m \in {p.as_matra : p \in {q \in PhonemeSet : q.is_vowel /\ Truthy(q.as_matra)}} |->
        LET k == CHOOSE k \in DOMAIN ALL_PHONEMES :
                   /\ ALL_PHONEMES[k].is_vowel
                   /\ ALL_PHONEMES[k].as_matra = m
                   /\ \A j \in DOMAIN ALL_PHONEMES :
                        (ALL_PHONEMES[j].is_vowel /\ ALL_PHONEMES[j].as_matra = m) => j <= k
        IN  ALL_PHONEMES[k]]

AC == {p.symbol : p \in {q \in PhonemeSet : q.is_vowel}}
HAL == {p.symbol : p \in {q \in PhonemeSet : ~q.is_vowel /\ q # VIRAMA}}

\* ------------------------------------------------------- text/processing.py

\* What one iteration of decompose's loop does at glyph index k (1-based):
\* the exception it raises, the phonemes it appends, and how far it advances.
ScanOutcome(ps, adv) == [raised |-> None, emit |-> ps, advance |-> adv]

\* A variant that does not advance past a glyph missing from the registry.
scanStepStuck(txt, k) ==
    LET char == txt[k] IN
    IF char \notin DOMAIN SYMBOL_MAP THEN ScanOutcome(<< >>, 0)
    ELSE
      LET p == SYMBOL_MAP[char] IN
      IF p.is_vowel THEN ScanOutcome(<<p>>, 1)
      ELSE IF (~p.is_vowel) /\ p # VIRAMA THEN
        IF k + 1 <= Len(txt) /\ txt[k + 1] \in DOMAIN MATRA_MAP
          THEN ScanOutcome(<<p, MATRA_MAP[txt[k + 1]]>>, 2)
        ELSE IF k + 1 <= Len(txt) /\ txt[k + 1] = VIRAMA.symbol
          THEN ScanOutcome(<<p>>, 2)
        ELSE ScanOutcome(<<p, A>>, 1)
      ELSE ScanOutcome(<<p>>, 1)

\* A variant that leaves the vowel-suppressor after a consonant to be scanned.
scanStepSuppressorKept(txt, k) ==
    LET char == txt[k] IN
    IF char \notin DOMAIN SYMBOL_MAP THEN ScanOutcome(<< >>, 1)
    ELSE
      LET p == SYMBOL_MAP[char] IN
      IF p.is_vowel THEN ScanOutcome(<<p>>, 1)
      ELSE IF (~p.is_vowel) /\ p # VIRAMA THEN
        IF k + 1 <= Len(txt) /\ txt[k + 1] \in DOMAIN MATRA_MAP
          THEN ScanOutcome(<<p, MATRA_MAP[txt[k + 1]]>>, 2)
        ELSE IF k + 1 <= Len(txt) /\ txt[k + 1] = VIRAMA.symbol
          THEN ScanOutcome(<<p>>, 1)
        ELSE ScanOutcome(<<p, A>>, 1)
      ELSE ScanOutcome(<<p>>, 1)

\* A variant that gives no inherent vowel to a consonant at the end of the text.
scanStepBareFinal(txt, k) ==
    LET char == txt[k] IN
    IF char \notin DOMAIN SYMBOL_MAP THEN ScanOutcome(<< >>, 1)
    ELSE
      LET p == SYMBOL_MAP[char] IN
      IF p.is_vowel THEN ScanOutcome(<<p>>, 1)
      ELSE IF (~p.is_vowel) /\ p # VIRAMA THEN
        IF k + 1 <= Len(txt) /\ txt[k + 1] \in DOMAIN MATRA_MAP
          THEN ScanOutcome(<<p, MATRA_MAP[txt[k + 1]]>>, 2)
        ELSE IF k + 1 <= Len(txt) /\ txt[k + 1] = VIRAMA.symbol
          THEN ScanOutcome(<<p>>, 2)
        ELSE IF k + 1 <= Len(txt) THEN ScanOutcome(<<p, A>>, 1)
        ELSE ScanOutcome(<<p>>, 1)
      ELSE ScanOutcome(<<p>>, 1)

\* One iteration of decompose's while loop at glyph index k.
scanStep(txt, k) ==
    LET char == txt[k] IN
    IF char \notin DOMAIN SYMBOL_MAP THEN ScanOutcome(<< >>, 1)
    ELSE
      LET p == SYMBOL_MAP[char] IN
      IF p.is_vowel THEN ScanOutcome(<<p>>, 1)
      ELSE IF (~p.is_vowel) /\ p # VIRAMA THEN
        IF k + 1 <= Len(txt) /\ txt[k + 1] \in DOMAIN MATRA_MAP
          THEN ScanOutcome(<<p, MATRA_MAP[txt[k + 1]]>>, 2)
        ELSE IF k + 1 <= Len(txt) /\ txt[k + 1] = VIRAMA.symbol
          THEN ScanOutcome(<<p>>, 2)
        ELSE ScanOutcome(<<p, A>>, 1)
      ELSE ScanOutcome(<<p>>, 1)

\* decompose's scan loop from glyph index k (1-based) to the end of the text.
RECURSIVE decomposeFrom(_, _)
decomposeFrom(txt, k) ==
    IF k > Len(txt) THEN << >>
    ELSE LET step == scanStep(txt, k)
         IN  step.emit \o decomposeFrom(txt, k + step.advance)

decompose(txt) == decomposeFrom(txt, 1)

\* A variant that never writes the vowel-suppressor after a bare consonant.
recomposeStepNoVirama(ps, idx) ==
    LET p == ps[idx] IN
    IF p.is_vowel THEN
      IF idx > 1 /\ ~ps[idx - 1].is_vowel /\ ps[idx - 1] # VIRAMA THEN
        IF p = A THEN << >>
        ELSE IF Truthy(p.as_matra) THEN <<p.as_matra>>
        ELSE <<p.symbol>>
      ELSE <<p.symbol>>
    ELSE <<p.symbol>>

\* A variant that writes the vowel-suppressor after a bare modifier as well.
recomposeStepModifierSuppressed(ps, idx) ==
    LET p == ps[idx] IN
    IF p.is_vowel THEN
      IF idx > 1 /\ ~ps[idx - 1].is_vowel /\ ps[idx - 1] # VIRAMA THEN
        IF p = A THEN << >>
        ELSE IF Truthy(p.as_matra) THEN <<p.as_matra>>
        ELSE <<p.symbol>>
      ELSE <<p.symbol>>
    ELSE
      <<p.symbol>> \o
      ( LET has_vowel_next == idx + 1 <= Len(ps) /\ ps[idx + 1].is_vowel
        IN  IF ~has_vowel_next THEN <<VIRAMA.symbol>> ELSE << >> )

\* The glyphs recompose appends for the phoneme at index idx (1-based).
recomposeStep(ps, idx) ==
    LET p == ps[idx] IN
    IF p.is_vowel THEN
      IF idx > 1 /\ ~ps[idx - 1].is_vowel /\ ps[idx - 1] # VIRAMA THEN
        IF p = A THEN << >>
        ELSE IF Truthy(p.as_matra) THEN <<p.as_matra>>
        ELSE <<p.symbol>>
      ELSE <<p.symbol>>
    ELSE
      <<p.symbol>> \o
      ( IF (~p.is_vowel) /\ p.symbol \notin {"VIRAMA", "ANUSVARA", "VISARGA"}
          THEN LET has_vowel_next == idx + 1 <= Len(ps) /\ ps[idx + 1].is_vowel
               IN  IF ~has_vowel_next THEN <<VIRAMA.symbol>> ELSE << >>
          ELSE << >> )

RECURSIVE recomposeFrom(_, _)
recomposeFrom(ps, idx) ==
    IF idx > Len(ps) THEN << >>
    ELSE recomposeStep(ps, idx) \o recomposeFrom(ps, idx + 1)

recompose(ps) == recomposeFrom(ps, 1)

\* ------------------------------------------------------------------ sandhi.py

Sutra(id, txt, description) ==
    [id |-> id, text |-> txt, description |-> description, type |-> "vidhi"]

\* The four Sutra objects the module creates, by object reference.
SutraObjects ==
    [ref \in 1..4 |->
        CASE ref = 1 -> Sutra("6.1.77", "iko yanaci",
                              "ik before a dissimilar vowel -> yan (y, v, r, l)")
          [] ref = 2 -> Sutra("6.1.87", "adgunah",
                              "a + i -> e; a + u -> o; a + r -> ar; a + l -> al (Guna)")
          [] ref = 3 -> Sutra("6.1.88", "vrddhireci",
                              "a + e -> ai; a + o -> au (Vrddhi)")
          [] ref = 4 -> Sutra("6.1.101", "akah savarne dirghah",
                              "Two similar (savarna) simple vowels merge into the long vowel")]

\* A variant of the table that lost its third entry.
RULES_INCOMPLETE == <<1, 2, 4>>

\* _RULES as the module builds it: references to the four objects, in order.
RULES_INITIAL == <<1, 2, 3, 4>>

\* Python's None where a reference to a Sutra object is expected.
NoRef == 0

SandhiResult(original, modified, rule_applied, confidence) ==
    [original |-> original, modified |-> modified,
     rule_applied |-> rule_applied, confidence |-> confidence]

\* Outcome of a call: the value it returned, or the exception it raised.
Return(v) == [raised |-> None, value |-> v]
Raise(exc) == [raised |-> exc, value |-> SandhiResult(<< >>, << >>, NoRef, 0)]

\* No call made yet.
NoResult == [raised |-> "NoCall", value |-> SandhiResult(<< >>, << >>, NoRef, 0)]

\* _rule(rid): next(r for r in _RULES if r.id == rid); StopIteration if none.
_rule(rid) ==
    LET hits == {k \in DOMAIN _RULES : sutras[_RULES[k]].id = rid} IN
    IF hits = {} THEN Raise("StopIteration")
    ELSE Return(_RULES[CHOOSE k \in hits : \A j \in hits : k <= j])

\* SandhiEngine.__init__: the pratyahara sets and the yan map.
AK == {A.symbol, AA.symbol, I.symbol, II.symbol, U.symbol, UU.symbol,
       R.symbol, RR.symbol, L.symbol}
IK == {I.symbol, II.symbol, U.symbol, UU.symbol, R.symbol, RR.symbol, L.symbol}
YAN_MAP ==
    [s \in {I.symbol, II.symbol, U.symbol, UU.symbol, R.symbol, RR.symbol, L.symbol} |->
        CASE s \in {I.symbol, II.symbol} -> YA
          [] s \in {U.symbol, UU.symbol} -> VA
          [] s \in {R.symbol, RR.symbol} -> RA
          [] s = L.symbol -> LA]

\* str.strip(): whitespace removed from both ends.
Whitespace == {"SPACE"}

RECURSIVE lstrip(_)
lstrip(s) ==
    IF s # << >> /\ Head(s) \in Whitespace THEN lstrip(Tail(s)) ELSE s

RECURSIVE rstrip(_)
rstrip(s) ==
    IF s # << >> /\ s[Len(s)] \in Whitespace
      THEN rstrip(SubSeq(s, 1, Len(s) - 1)) ELSE s

strip(s) == rstrip(lstrip(s))

\* f"{t1} + {t2}"
Original(t1, t2) == t1 \o <<"SPACE", "PLUS", "SPACE">> \o t2

\* A variant that memoises the recomposed text by rule id and reuses the text of
\* the previous result when that result cited the same rule.
_result_MemoisedByRule(t1, t2, ps, rid) ==
    LET found == _rule(rid)
        hit == /\ result.raised = None
               /\ result.value.rule_applied # NoRef
               /\ sutras[result.value.rule_applied].id = rid
        combined == IF hit THEN result.value.modified ELSE recompose(ps)
    IN  IF found.raised # None THEN Raise(found.raised)
        ELSE Return(SandhiResult(Original(t1, t2), combined, found.value, 1))

\* SandhiEngine._result
_result(t1, t2, ps, rid) ==
    LET combined == recompose(ps)
        found == _rule(rid)
    IN  IF found.raised # None THEN Raise(found.raised)
        ELSE Return(SandhiResult(Original(t1, t2), combined, found.value, 1))

\* A variant that merges into the last vowel itself, without lengthening it.
DirghaReplacementUnlengthened(L_sym) ==
    IF L_sym \in {A.symbol, AA.symbol, I.symbol, II.symbol, U.symbol, UU.symbol,
                  R.symbol, RR.symbol}
      THEN <<SYMBOL_MAP[L_sym]>>
    ELSE << >>

\* The replacement 6.1.101 picks for the last phoneme's symbol, as a sequence
\* of one phoneme; the empty sequence stands for None.
DirghaReplacement(L_sym) ==
    IF L_sym \in {A.symbol, AA.symbol} THEN <<AA>>
    ELSE IF L_sym \in {I.symbol, II.symbol} THEN <<II>>
    ELSE IF L_sym \in {U.symbol, UU.symbol} THEN <<UU>>
    ELSE IF L_sym \in {R.symbol, RR.symbol} THEN <<RR>>
    ELSE << >>

\* A variant whose second branch repeats the first branch's result.
VrddhiReplacementRepeated(F_sym) ==
    IF F_sym \in {E.symbol, AI.symbol} THEN <<AI>>
    ELSE IF F_sym \in {O.symbol, AU.symbol} THEN <<AI>>
    ELSE << >>

\* The replacement 6.1.88 picks for the first phoneme's symbol, as a sequence
\* of one phoneme; the empty sequence stands for None.
VrddhiReplacement(F_sym) ==
    IF F_sym \in {E.symbol, AI.symbol} THEN <<AI>>
    ELSE IF F_sym \in {O.symbol, AU.symbol} THEN <<AU>>
    ELSE << >>

\* A variant that forgets the semivowel after the vocalic liquids.
GunaReplacementNoSemivowel(F_sym) ==
    IF F_sym \in {I.symbol, II.symbol} THEN <<E>>
    ELSE IF F_sym \in {U.symbol, UU.symbol} THEN <<O>>
    ELSE IF F_sym \in {R.symbol, RR.symbol} THEN <<A>>
    ELSE IF F_sym \in {L.symbol} THEN <<A>>
    ELSE << >>

\* The replacement 6.1.87 picks for the first phoneme's symbol; [] if it has none.
GunaReplacement(F_sym) ==
    IF F_sym \in {I.symbol, II.symbol} THEN <<E>>
    ELSE IF F_sym \in {U.symbol, UU.symbol} THEN <<O>>
    ELSE IF F_sym \in {R.symbol, RR.symbol} THEN <<A, RA>>
    ELSE IF F_sym \in {L.symbol} THEN <<A, LA>>
    ELSE << >>

\* p[:-1] and p[1:]
ButLast(p) == SubSeq(p, 1, Len(p) - 1)
Rest(p) == SubSeq(p, 2, Len(p))

\* A variant that keeps the first phoneme of p2 as the semivowel rule does.
MergePhonemesKeepFirst(p1, replacement, p2) == ButLast(p1) \o replacement \o p2

\* new_phonemes of 6.1.101, 6.1.88 and 6.1.87: p1[:-1] + replacement + p2[1:]
MergePhonemes(p1, replacement, p2) == ButLast(p1) \o replacement \o Rest(p2)

\* A variant that consumes the first phoneme of p2 as the merging rules do.
YanPhonemesDropFirst(p1, yan, p2) == ButLast(p1) \o <<yan>> \o Rest(p2)

\* new_phonemes of 6.1.77: p1[:-1] + [yan] + p2
YanPhonemes(p1, yan, p2) == ButLast(p1) \o <<yan>> \o p2

\* A variant that reports a match although no rule applied.
NoMatchConfident(t1, t2) ==
    Return(SandhiResult(Original(t1, t2), t1 \o <<"SPACE">> \o t2, NoRef, 1))

\* The return when no rule applies: f"{t1} {t2}", no rule, 0.0.
NoMatch(t1, t2) ==
    Return(SandhiResult(Original(t1, t2), t1 \o <<"SPACE">> \o t2, NoRef, 0))

\* A variant that joins the two terms with the separator of the no-match return.
ShortCircuitSpaced(t1, t2) ==
    Return(SandhiResult(Original(t1, t2), t1 \o <<"SPACE">> \o t2, NoRef, 1))

\* The return for an empty term or an empty decomposition: f"{t1}{t2}", no rule, 1.0.
ShortCircuit(t1, t2) ==
    Return(SandhiResult(Original(t1, t2), t1 \o t2, NoRef, 1))

\* The rule checks of apply, in the order of the code, on non-empty p1 and p2:
\* the id of the rule that matches (None if none does) and its new_phonemes.
junction(p1, p2) ==
    LET last == p1[Len(p1)]
        first == p2[1]
        L_sym == last.symbol
        F_sym == first.symbol
        match(rid, ps) == [rule |-> rid, new_phonemes |-> ps]
    IN
    IF /\ last.is_vowel /\ first.is_vowel
       /\ last.place = first.place /\ L_sym \in AK
       /\ DirghaReplacement(L_sym) # << >>
      THEN match("6.1.101", MergePhonemes(p1, DirghaReplacement(L_sym), p2))
    ELSE IF /\ L_sym \in {A.symbol, AA.symbol} /\ first.is_vowel
            /\ VrddhiReplacement(F_sym) # << >>
      THEN match("6.1.88", MergePhonemes(p1, VrddhiReplacement(F_sym), p2))
    ELSE IF /\ L_sym \in {A.symbol, AA.symbol} /\ first.is_vowel
            /\ GunaReplacement(F_sym) # << >>
      THEN match("6.1.87", MergePhonemes(p1, GunaReplacement(F_sym), p2))
    ELSE IF /\ L_sym \in IK /\ first.is_vowel
            /\ L_sym \in DOMAIN YAN_MAP
      THEN match("6.1.77", YanPhonemes(p1, YAN_MAP[L_sym], p2))
    ELSE match(None, << >>)

\* The return of apply after its rule checks.
applyRules(t1, t2, p1, p2) ==
    LET found == junction(p1, p2) IN
    IF found.rule = None THEN NoMatch(t1, t2)
    ELSE _result(t1, t2, found.new_phonemes, found.rule)

\* A variant that works on the terms as given, without trimming them.
apply_Untrimmed(tm1, tm2) ==
    IF tm1 = << >> \/ tm2 = << >>
      THEN ShortCircuit(tm1, tm2)
    ELSE
      LET p1 == decompose(tm1)
          p2 == decompose(tm2)
      IN
      IF p1 = << >> \/ p2 = << >>
        THEN ShortCircuit(tm1, tm2)
      ELSE applyRules(tm1, tm2, p1, p2)

\* SandhiEngine.apply.  confidence 1.0 is written 1 and 0.0 is written 0.
apply(tm1, tm2) ==
    LET t1 == strip(tm1)
        t2 == strip(tm2)
    IN
    IF t1 = << >> \/ t2 = << >>
      THEN ShortCircuit(t1, t2)
    ELSE
      LET p1 == decompose(t1)
          p2 == decompose(t2)
      IN
      IF p1 = << >> \/ p2 = << >>
        THEN ShortCircuit(t1, t2)
      ELSE applyRules(t1, t2, p1, p2)

\* needle in haystack, for two strings.
Contains(hay, needle) ==
    \E k \in 1..(Len(hay) - Len(needle) + 1) :
        SubSeq(hay, k, k + Len(needle) - 1) = needle

\* SandhiEngine.explain
\* A variant in which the four tests form one if/elif chain.
explain_FirstHintOnly(txt) ==
    IF Contains(txt, <<"VIRAMA", "YA">>) \/ Contains(txt, <<"VIRAMA", "VA">>)
      THEN <<"Possible Yan Sandhi (6.1.77)">>
    ELSE IF Contains(txt, <<"mE">>) \/ Contains(txt, <<"mO">>)
      THEN <<"Possible Guna Sandhi (6.1.87)">>
    ELSE IF Contains(txt, <<"mAI">>) \/ Contains(txt, <<"mAU">>)
      THEN <<"Possible Vrddhi Sandhi (6.1.88)">>
    ELSE IF Contains(txt, <<"mAA">>) \/ Contains(txt, <<"mII">>) \/ Contains(txt, <<"mUU">>)
      THEN <<"Possible Savarna Dirgha (6.1.101)">>
    ELSE << >>

explain(txt) ==
    (IF Contains(txt, <<"VIRAMA", "YA">>) \/ Contains(txt, <<"VIRAMA", "VA">>)
       THEN <<"Possible Yan Sandhi (6.1.77)">> ELSE << >>)
    \o (IF Contains(txt, <<"mE">>) \/ Contains(txt, <<"mO">>)
       THEN <<"Possible Guna Sandhi (6.1.87)">> ELSE << >>)
    \o (IF Contains(txt, <<"mAI">>) \/ Contains(txt, <<"mAU">>)
       THEN <<"Possible Vrddhi Sandhi (6.1.88)">> ELSE << >>)
    \o (IF Contains(txt, <<"mAA">>) \/ Contains(txt, <<"mII">>) \/ Contains(txt, <<"mUU">>)
       THEN <<"Possible Savarna Dirgha (6.1.101)">> ELSE << >>)

\* A list object in a caller's hands: which list object it is, and its items.
ListObject(identity, items) == [identity |-> identity, items |-> items]

\* No list has been returned yet.
NoList == ListObject(None, << >>)

\* A variant that returns the engine's own list object.
list_rules_SameList == ListObject("self.rules", rules)

\* SandhiEngine.list_rules: list(self.rules), a new list of the same Sutra objects.
list_rules == ListObject("list(self.rules)", rules)

\* ----------------------------------------------------------------- chandas.py

\* No index has been computed yet.
NotYet == -1

\* bin(n)[2:] for n >= 0: the binary digits of n, most significant first,
\* without leading zeros ("0" for 0).
RECURSIVE bin(_)
bin(n) ==
    LET digit == IF n % 2 = 0 THEN "0" ELSE "1"
    IN  IF n < 2 THEN <<digit>> ELSE Append(bin(n \div 2), digit)

\* str.zfill(width): zeros on the left up to the width; never shortens.
RECURSIVE zfill(_, _)
zfill(str, width) == IF Len(str) >= width THEN str ELSE zfill(<<"0">> \o str, width)

\* int(pattern, 2) on a non-empty string of binary digits.
RECURSIVE int2(_)
int2(str) ==
    IF str = << >> THEN 0
    ELSE 2 * int2(ButLast(str)) + (IF str[Len(str)] = "1" THEN 1 ELSE 0)

\* A variant that does not pad the digits.
nashtam_Unpadded(idx, len) == bin(idx)

\* ChandasAnalyzer.nashtam(index, length)
nashtam(idx, len) == zfill(bin(idx), len)

\* ChandasAnalyzer.uddishtam(pattern)
uddishtam(pat) == int2(pat)

\* ------------------------------------------------------------- compression.py

\* A Python value of a row: a str or None.  A row (a flat dict) is a function
\* from its keys to such values; a dataset is a sequence of rows.
PyStr(str) == [type |-> "str", v |-> str]
PyNone == [type |-> "NoneType", v |-> None]

\* The order of the keys of a dict, and the order of the strings under <.
KeyOrder == <<"a", "b">>
StrOrder == <<"", "x", "y">>

\* list(row.keys())
keysOf(row) == SelectSeq(KeyOrder, LAMBDA k : k \in DOMAIN row)

\* row.get(k, default)
get(row, k, default) == IF k \in DOMAIN row THEN row[k] ELSE default

\* sorted(unique): the strings in order; TypeError when the set holds two
\* values that < cannot compare (a str and None).
sorted(unique) ==
    IF \E u1 \in unique, u2 \in unique : u1.type # u2.type
      THEN [raised |-> "TypeError", value |-> << >>]
      ELSE [raised |-> None,
            value |-> SelectSeq([n \in 1..Len(StrOrder) |-> PyStr(StrOrder[n])],
                                LAMBDA u : u \in unique)]

\* zlib.compress(msgpack.packb(obj)): a blob from which zlib.decompress and
\* msgpack.unpackb give obj back.
_pack_and_deflate(obj) == [format |-> "zlib", packed |-> [format |-> "msgpack", obj |-> obj]]

\* MeruCompressor.compress(data, dataset_name)
compress(d, dataset_name) ==
    LET meta == [type |-> "meru_sutra_v1", name |-> dataset_name] IN
    IF d = << >>
      THEN [raised |-> None,
            value |-> _pack_and_deflate([meta |-> meta, schema |-> << >>,
                                         dna |-> << >>, stream |-> << >>])]
    ELSE
      LET keys == keysOf(d[1])
          uniqueOf(k) == {get(d[n], k, PyStr("")) : n \in 1..Len(d)}
          candidates == {k \in DOMAIN d[1] :
                            /\ d[1][k].type = "str"
                            /\ Cardinality(uniqueOf(k)) < Len(d)}
          reverse_vocab == [k \in candidates |-> sorted(uniqueOf(k))]
          \* vocab_registry[k].get(val, 0), as a 0-based index
          token(k, val) ==
              LET sorted_vals == reverse_vocab[k].value IN
              IF \E n \in 1..Len(sorted_vals) : sorted_vals[n] = val
                THEN (CHOOSE n \in 1..Len(sorted_vals) : sorted_vals[n] = val) - 1
                ELSE 0
          stream == [n \in 1..Len(d) |->
                       [c \in 1..Len(keys) |->
                          LET k == keys[c]
                              val == get(d[n], k, PyNone)
                          IN  IF k \in candidates THEN token(k, val) ELSE val]]
      IN  IF \E k \in candidates : reverse_vocab[k].raised # None
            THEN [raised |-> "TypeError", value |-> _pack_and_deflate(<< >>)]
            ELSE [raised |-> None,
                  value |-> _pack_and_deflate(
                      [meta |-> meta, schema |-> keys,
                       dna |-> [k \in candidates |-> reverse_vocab[k].value],
                       stream |-> stream])]

\* MeruCompressor.decompress(meru_bytes)
decompress(meru_bytes) ==
    IF meru_bytes.format # "zlib" THEN << >>
    ELSE
      LET seed == meru_bytes.packed.obj
          keys == seed.schema
          dna == seed.dna
          stream == seed.stream
      IN  [n \in 1..Len(stream) |->
             [k \in {keys[c] : c \in 1..Len(keys)} |->
                LET c == CHOOSE c \in 1..Len(keys) : keys[c] = k
                    val == stream[n][c]
                IN  IF k \in DOMAIN dna THEN dna[k][val + 1] ELSE val]]

\* compress has not been called; decompress has not been called.
NoBlob == [raised |-> "NoCall", value |-> _pack_and_deflate(<< >>)]
NotRestored == [done |-> FALSE, rows |-> << >>]

\* --------------------------------------------------------------- validator.py

\* ValidationResult(text=text), with the defaults of its other fields.  The
\* empty dict of grammar_patterns is the function of no key.
ValidationResult(txt) ==
    [text |-> txt, is_valid |-> TRUE, errors |-> << >>, warnings |-> << >>,
     suggestions |-> << >>, confidence |-> 1, grammar_patterns |-> << >>,
     semantic_graph |-> None, meter |-> None]

\* validate has not returned.
NoValidation == [returned |-> FALSE, result |-> ValidationResult(<< >>)]

\* A variant in the manner of str.split(" "): a word between any two
\* whitespace glyphs, empty words included.
RECURSIVE split_OnEachSpace(_)
split_OnEachSpace(str) ==
    IF \A k \in 1..Len(str) : str[k] \notin Whitespace THEN <<str>>
    ELSE LET k == CHOOSE k \in 1..Len(str) :
                     /\ str[k] \in Whitespace
                     /\ \A j \in 1..(k - 1) : str[j] \notin Whitespace
         IN  <<SubSeq(str, 1, k - 1)>> \o split_OnEachSpace(SubSeq(str, k + 1, Len(str)))

\* str.split(): the maximal runs of glyphs that are not whitespace.
RECURSIVE split(_)
split(str) ==
    IF str = << >> THEN << >>
    ELSE IF Head(str) \in Whitespace THEN split(Tail(str))
    ELSE LET run == CHOOSE k \in 1..Len(str) :
                       /\ \A j \in 1..k : str[j] \notin Whitespace
                       /\ k = Len(str) \/ str[k + 1] \in Whitespace
         IN  <<SubSeq(str, 1, run)>> \o split(SubSeq(str, run + 1, Len(str)))

\* What the analyzers other than the sandhi engine can find in a text: the
\* kinds of the morphological analyses, whether the semantic graph has nodes,
\* the number of compounds, and the name of the meter (None when the text has
\* no syllable).
Findings ==
    [analyses : {<< >>, <<"vibhakti">>, <<"lakara">>, <<"unanalyzed">>},
     graph : BOOLEAN,
     compounds : 0..1,
     meter_name : {None, "Unclassified"}]

\* A call on the engine: the method and its arguments.
EngineCall(method, args) == [method |-> method, args |-> args]

\* The calls validate(text) makes on self.sandhi, in order: none when the text
\* has no word, else the one explain(text) of _analyze_sandhi.
sandhi_calls(txt) ==
    IF split(strip(txt)) = << >> THEN << >>
    ELSE <<EngineCall("explain", <<txt>>)>>

\* SanskritValidator.validate(text), the analyzers finding f.
validate(txt, f) ==
    LET result0 == ValidationResult(txt)
        words == split(strip(txt))
    IN  IF words = << >>
          THEN [result0 EXCEPT !.is_valid = FALSE, !.errors = <<"Empty input.">>]
        ELSE
          LET explanations == explain(txt)
              count(kind) == Len(SelectSeq(f.analyses, LAMBDA a : a = kind))
              patterns == [sandhi |-> Len(explanations), samasa |-> f.compounds,
                           vibhakti |-> count("vibhakti"), dhatu |-> count("lakara")]
              suggestions ==
                  explanations
                  \o [k \in 1..Len(f.analyses) |-> "Morphology"]
                  \o (IF f.graph THEN <<"--- Semantic Network (Karaka) ---">> ELSE << >>)
                  \o [k \in 1..f.compounds |-> "Compound"]
                  \o (IF f.meter_name # None THEN <<"Meter">> ELSE << >>)
          IN  [result0 EXCEPT !.suggestions = suggestions,
                              !.semantic_graph = IF f.graph THEN "graph" ELSE None,
                              !.meter = f.meter_name,
                              !.grammar_patterns = patterns]

\* ------------------------------------------------------------- the inputs

\* Every glyph a term may show at the junction: the independent vowels, the
\* dependent-vowel signs, two consonants, the three modifiers, a whitespace
\* glyph and a glyph that is not in the registry.
BoundaryGlyphs ==
    {"A", "AA", "I", "II", "U", "UU", "R", "RR", "L", "E", "AI", "O", "AU"}
    \cup DOMAIN MATRA_MAP
    \cup {"KA", "TA_D", "VIRAMA", "ANUSVARA", "VISARGA", "SPACE", "DIGIT"}

\* The glyphs of a stem.
StemGlyphs == {"KA", "ANUSVARA", "SPACE"}

\* All strings over the glyphs G of length at most n.
RECURSIVE StringsUpTo(_, _)
StringsUpTo(G, n) ==
    IF n = 0 THEN {<< >>}
    ELSE LET shorter == StringsUpTo(G, n - 1)
         IN  shorter \cup {Append(s, g) : s \in shorter, g \in G}

Stems == StringsUpTo(StemGlyphs, MaxStem)

\* The terms of the scenarios: deva + aalaya, a + agni, a + indrah, ka + ta.
ScenarioTerms1 == {<<"DA_D", "mE", "VA">>, <<"A">>, <<"KA">>}
ScenarioTerms2 ==
    {<<"AA", "LA", "YA">>, <<"A", "GA", "VIRAMA", "NA_D", "mI">>,
     <<"I", "NA_D", "VIRAMA", "DA_D", "VIRAMA", "RA", "VISARGA">>, <<"TA_D">>}

\* The calls made on one long-lived engine: the scenario terms and three texts.
EngineTexts ==
    {<<"DA_D", "mE", "VA", "mE", "NA_D", "VIRAMA", "DA_D", "VIRAMA", "RA", "VISARGA">>,
     <<"KA", "VIRAMA", "YA", "mAU">>,
     <<"A">>}

\* First terms: empty, a stem and then the junction glyph, or a scenario term.
Terms1 == {<< >>} \cup {s \o <<g>> : s \in Stems, g \in BoundaryGlyphs} \cup ScenarioTerms1
\* Second terms: empty, the junction glyph and then a stem, or a scenario term.
Terms2 == {<< >>} \cup {<<g>> \o s : s \in Stems, g \in BoundaryGlyphs} \cup ScenarioTerms2

\* The glyphs of a text decomposed on its own: a sample of each glyph class.
TextGlyphs ==
    {"A", "I", "KA", "TA_D", "mI", "mAA", "VIRAMA", "ANUSVARA", "VISARGA", "DIGIT"}

Texts == StringsUpTo(TextGlyphs, MaxTextLen)

\* ------------------------------------------------------------ the state machine

\* decompose is not running.
ScanIdle ==
    /\ i = 1
    /\ at = 0
    /\ emitted = << >>
    /\ scanRaised = None

\* No conversion between index and pattern has been asked for.
ChandasIdle ==
    /\ length = 0
    /\ pattern = << >>
    /\ index = 0
    /\ indexOfPattern = NotYet
    /\ patternOfIndex = << >>
    /\ patternRestored = << >>
    /\ indexRestored = NotYet

\* Nothing has been compressed.
CompressionIdle ==
    /\ data = << >>
    /\ blob = NoBlob
    /\ restored = NotRestored

\* validate has not been called.
ValidatorIdle ==
    /\ validation = NoValidation
    /\ sandhiCalls = << >>

\* The state after the module is imported and SandhiEngine() is constructed.
EngineInit ==
    /\ sutras = SutraObjects
    /\ _RULES = RULES_INITIAL
    /\ rules = RULES_INITIAL
    /\ result = NoResult
    /\ hints = << >>
    /\ listed = NoList
    /\ seen = << >>
    /\ seenHints = << >>
    /\ repeated = FALSE
    /\ calls = 0

\* One call engine.apply(a, b); the caller keeps what the first such call returned.
Apply(a, b) ==
    /\ term1' = a
    /\ term2' = b
    /\ result' = apply(a, b)
    /\ seen' = IF <<a, b>> \in DOMAIN seen THEN seen ELSE (<<a, b>> :> result') @@ seen
    /\ repeated' = (<<a, b>> \in DOMAIN seen)
    /\ calls' = calls + 1
    /\ UNCHANGED <<sutras, _RULES, rules, text, phonemes, recomposed, hints,
                   listed, seenHints>>
    /\ UNCHANGED <<scanVars, chandasVars, compressionVars, validatorVars>>

\* One call engine.explain(txt); the caller keeps what the first such call returned.
Explain(txt) ==
    /\ text' = txt
    /\ hints' = explain(txt)
    /\ seenHints' = IF txt \in DOMAIN seenHints THEN seenHints ELSE (txt :> hints') @@ seenHints
    /\ repeated' = (txt \in DOMAIN seenHints)
    /\ calls' = calls + 1
    /\ UNCHANGED <<sutras, _RULES, rules, term1, term2, result, phonemes,
                   recomposed, listed, seen>>
    /\ UNCHANGED <<scanVars, chandasVars, compressionVars, validatorVars>>

\* One call engine.list_rules().
ListRules ==
    /\ listed' = list_rules
    /\ repeated' = FALSE
    /\ calls' = calls + 1
    /\ UNCHANGED <<sutras, _RULES, rules, term1, term2, result, text, phonemes,
                   recomposed, hints, seen, seenHints>>
    /\ UNCHANGED <<scanVars, chandasVars, compressionVars, validatorVars>>

\* ---- Spec: one apply call on every pair of terms.

Init ==
    /\ EngineInit
    /\ ScanIdle /\ ChandasIdle /\ CompressionIdle /\ ValidatorIdle
    /\ term1 \in Terms1
    /\ term2 \in Terms2
    /\ text = << >>
    /\ phonemes = << >>
    /\ recomposed = << >>

ApplyOnce == calls = 0 /\ Apply(term1, term2)

Next == ApplyOnce

Spec == Init /\ [][Next]_vars

\* ---- SpecText: decompose a text, then recompose its phonemes.

TextInit ==
    /\ EngineInit
    /\ ScanIdle /\ ChandasIdle /\ CompressionIdle /\ ValidatorIdle
    /\ term1 = << >>
    /\ term2 = << >>
    /\ text \in Texts
    /\ phonemes = << >>
    /\ recomposed = << >>

Decompose ==
    /\ calls = 0
    /\ phonemes' = decompose(text)
    /\ calls' = 1
    /\ UNCHANGED <<sutras, _RULES, rules, term1, term2, result, text,
                   recomposed, hints, listed, seen, seenHints, repeated>>
    /\ UNCHANGED <<scanVars, chandasVars, compressionVars, validatorVars>>

Recompose ==
    /\ calls = 1
    /\ recomposed' = recompose(phonemes)
    /\ calls' = 2
    /\ UNCHANGED <<sutras, _RULES, rules, term1, term2, result, text,
                   phonemes, hints, listed, seen, seenHints, repeated>>
    /\ UNCHANGED <<scanVars, chandasVars, compressionVars, validatorVars>>

TextNext == Decompose \/ Recompose

SpecText == TextInit /\ [][TextNext]_vars

\* ---- SpecEngine: any sequence of apply, explain and list_rules calls on one engine.

EngineCallsInit ==
    /\ EngineInit
    /\ ScanIdle /\ ChandasIdle /\ CompressionIdle /\ ValidatorIdle
    /\ term1 = << >>
    /\ term2 = << >>
    /\ text = << >>
    /\ phonemes = << >>
    /\ recomposed = << >>

EngineApply ==
    /\ calls < MaxCalls
    /\ \E a \in ScenarioTerms1, b \in ScenarioTerms2 : Apply(a, b)

EngineExplain ==
    /\ calls < MaxCalls
    /\ \E txt \in EngineTexts : Explain(txt)

EngineListRules ==
    /\ calls < MaxCalls
    /\ ListRules

EngineNext == EngineApply \/ EngineExplain \/ EngineListRules

SpecEngine == EngineCallsInit /\ [][EngineNext]_vars

\* ---- explain on its own: one call on any short text over the glyphs its
\* tests look for, and a consonant that none of them looks for.
HintGlyphs ==
    {"VIRAMA", "YA", "VA", "mE", "mO", "mAI", "mAU", "mAA", "mII", "mUU", "KA"}
HintTexts == StringsUpTo(HintGlyphs, MaxHintLen)

ExplainInit ==
    /\ EngineInit
    /\ ScanIdle /\ ChandasIdle /\ CompressionIdle /\ ValidatorIdle
    /\ term1 = << >>
    /\ term2 = << >>
    /\ text \in HintTexts
    /\ phonemes = << >>
    /\ recomposed = << >>

ExplainOnce == calls = 0 /\ Explain(text)

SpecExplain == ExplainInit /\ [][ExplainOnce]_vars

\* ---- SpecScan: decompose(text), one iteration of its while loop at a time.

\* The glyphs of a scanned text: those of Texts and a whitespace glyph.
ScanTexts == StringsUpTo(TextGlyphs \cup {"SPACE"}, MaxScanLen)

\* phonemes = []; i = 0; n = len(text)
ScanInit ==
    /\ EngineInit
    /\ ChandasIdle /\ CompressionIdle /\ ValidatorIdle
    /\ term1 = << >>
    /\ term2 = << >>
    /\ text \in ScanTexts
    /\ phonemes = << >>
    /\ recomposed = << >>
    /\ i = 1
    /\ at = 0
    /\ emitted = << >>
    /\ scanRaised = None

\* while i < n: one iteration.
ScanStep ==
    /\ i <= Len(text)
    /\ scanRaised = None
    /\ LET step == scanStep(text, i) IN
         /\ at' = i
         /\ emitted' = step.emit
         /\ scanRaised' = step.raised
         /\ phonemes' = phonemes \o step.emit
         /\ i' = i + step.advance
    /\ UNCHANGED <<engineVars, text, recomposed, chandasVars, compressionVars, validatorVars>>

\* The loop runs on until its condition fails.
SpecScan == ScanInit /\ [][ScanStep]_vars /\ WF_vars(ScanStep)

\* ---- SpecChandas: a pattern converted to its index and back, and an index
\* converted to its pattern and back.

\* A length, a binary pattern of that length, and an index that a pattern of
\* the longest length can have.
ChandasInit ==
    /\ EngineInit
    /\ ScanIdle /\ CompressionIdle /\ ValidatorIdle
    /\ term1 = << >>
    /\ term2 = << >>
    /\ text = << >>
    /\ phonemes = << >>
    /\ recomposed = << >>
    /\ length \in 1..MaxBits
    /\ pattern \in [1..length -> {"0", "1"}]
    /\ index \in 0..(2^MaxBits - 1)
    /\ indexOfPattern = NotYet
    /\ patternOfIndex = << >>
    /\ patternRestored = << >>
    /\ indexRestored = NotYet

\* uddishtam(pattern)
Uddishtam ==
    /\ indexOfPattern = NotYet
    /\ indexOfPattern' = uddishtam(pattern)
    /\ UNCHANGED <<length, pattern, index, patternOfIndex, patternRestored, indexRestored>>
    /\ UNCHANGED <<engineVars, textVars, scanVars, compressionVars, validatorVars>>

\* nashtam(uddishtam(pattern), length)
NashtamBack ==
    /\ indexOfPattern # NotYet
    /\ patternRestored = << >>
    /\ patternRestored' = nashtam(indexOfPattern, length)
    /\ UNCHANGED <<length, pattern, index, indexOfPattern, patternOfIndex, indexRestored>>
    /\ UNCHANGED <<engineVars, textVars, scanVars, compressionVars, validatorVars>>

\* nashtam(index, length)
Nashtam ==
    /\ patternOfIndex = << >>
    /\ patternOfIndex' = nashtam(index, length)
    /\ UNCHANGED <<length, pattern, index, indexOfPattern, patternRestored, indexRestored>>
    /\ UNCHANGED <<engineVars, textVars, scanVars, compressionVars, validatorVars>>

\* uddishtam(nashtam(index, length))
UddishtamBack ==
    /\ patternOfIndex # << >>
    /\ indexRestored = NotYet
    /\ indexRestored' = uddishtam(patternOfIndex)
    /\ UNCHANGED <<length, pattern, index, indexOfPattern, patternOfIndex, patternRestored>>
    /\ UNCHANGED <<engineVars, textVars, scanVars, compressionVars, validatorVars>>

ChandasNext == Uddishtam \/ NashtamBack \/ Nashtam \/ UddishtamBack

SpecChandas == ChandasInit /\ [][ChandasNext]_vars

\* ---- SpecCompression: a dataset compressed and then decompressed.

\* The rows: every flat dict over the keys a and b with values "x", "y", None.
Rows == UNION {[keys -> {PyStr("x"), PyStr("y"), PyNone}] : keys \in SUBSET {"a", "b"}}

RECURSIVE Datasets(_)
Datasets(n) ==
    IF n = 0 THEN {<< >>}
    ELSE LET shorter == Datasets(n - 1)
         IN  shorter \cup {Append(d, row) : d \in shorter, row \in Rows}

CompressionInit ==
    /\ EngineInit
    /\ ScanIdle /\ ChandasIdle /\ ValidatorIdle
    /\ term1 = << >>
    /\ term2 = << >>
    /\ text = << >>
    /\ phonemes = << >>
    /\ recomposed = << >>
    /\ data \in Datasets(MaxRows)
    /\ blob = NoBlob
    /\ restored = NotRestored

\* blob = comp.compress(data, "test")
Compress ==
    /\ blob = NoBlob
    /\ blob' = compress(data, "test")
    /\ UNCHANGED <<data, restored>>
    /\ UNCHANGED <<engineVars, textVars, scanVars, chandasVars, validatorVars>>

\* comp.decompress(blob)
Decompress ==
    /\ blob.raised = None
    /\ ~restored.done
    /\ restored' = [done |-> TRUE, rows |-> decompress(blob.value)]
    /\ UNCHANGED <<data, blob>>
    /\ UNCHANGED <<engineVars, textVars, scanVars, chandasVars, validatorVars>>

CompressionNext == Compress \/ Decompress

SpecCompression == CompressionInit /\ [][CompressionNext]_vars

\* ---- SpecValidator: one validate call on a text.

\* The texts: whitespace, a consonant, the sign of e and a digit.
ValidatorTexts == StringsUpTo({"SPACE", "KA", "mE", "DIGIT"}, MaxValidated)

ValidatorInit ==
    /\ EngineInit
    /\ ScanIdle /\ ChandasIdle /\ CompressionIdle
    /\ term1 = << >>
    /\ term2 = << >>
    /\ text \in ValidatorTexts
    /\ phonemes = << >>
    /\ recomposed = << >>
    /\ validation = NoValidation
    /\ sandhiCalls = << >>

\* validator.validate(text)
Validate ==
    /\ ~validation.returned
    /\ \E f \in Findings : validation' = [returned |-> TRUE, result |-> validate(text, f)]
    /\ sandhiCalls' = sandhi_calls(text)
    /\ UNCHANGED <<engineVars, textVars, scanVars, chandasVars, compressionVars>>

SpecValidator == ValidatorInit /\ [][Validate]_vars

\* ---- SpecLists: calls on one engine, and a caller changing the list that
\* list_rules returned.

\* What a caller does to a list in their hands: clear it, drop its last item,
\* or reverse it.
ListEdits == {"clear", "pop", "reverse"}

RECURSIVE Reverse(_)
Reverse(s) == IF s = << >> THEN << >> ELSE Append(Reverse(Tail(s)), Head(s))

EditList(items, edit) ==
    IF edit = "clear" THEN << >>
    ELSE IF edit = "pop" THEN ButLast(items)
    ELSE Reverse(items)

\* The caller edits the list object last returned by list_rules; the engine's
\* list changes with it exactly when it is the same list object.
CallerModifiesList ==
    /\ listed # NoList
    /\ \E edit \in ListEdits :
         LET items == EditList(listed.items, edit) IN
         /\ items # listed.items
         /\ listed' = ListObject(listed.identity, items)
         /\ rules' = IF listed.identity = "self.rules" THEN items ELSE rules
    /\ repeated' = FALSE
    /\ UNCHANGED <<sutras, _RULES, term1, term2, result, hints, seen, seenHints, calls>>
    /\ UNCHANGED <<textVars, scanVars, chandasVars, compressionVars, validatorVars>>

ListsNext == EngineApply \/ EngineExplain \/ EngineListRules \/ CallerModifiesList

SpecLists == EngineCallsInit /\ [][ListsNext]_vars

\* ---- SpecCaller: apply calls on one engine, and a caller writing to a field
\* of the Sutra object that the result of the last call refers to.

\* The fields of a Sutra the caller writes to.
RuleFields == {"id", "text"}

\* The calls of the caller: a or ka before agni or indrah.
CallerTerms1 == {<<"A">>, <<"KA">>}
CallerTerms2 ==
    {<<"A", "GA", "VIRAMA", "NA_D", "mI">>,
     <<"I", "NA_D", "VIRAMA", "DA_D", "VIRAMA", "RA", "VISARGA">>}

CallerApply ==
    /\ calls < MaxCalls
    /\ \E a \in CallerTerms1, b \in CallerTerms2 : Apply(a, b)

\* result.rule_applied.<field> = "changed"
CallerModifiesRule ==
    /\ result.raised = None
    /\ result.value.rule_applied # NoRef
    /\ \E f \in RuleFields :
         LET ref == result.value.rule_applied IN
         /\ sutras[ref][f] # "changed"
         /\ sutras' = [sutras EXCEPT ![ref][f] = "changed"]
    /\ repeated' = FALSE
    /\ UNCHANGED <<_RULES, rules, term1, term2, result, hints, listed, seen, seenHints, calls>>
    /\ UNCHANGED <<textVars, scanVars, chandasVars, compressionVars, validatorVars>>

CallerNext == CallerApply \/ CallerModifiesRule

SpecCaller == EngineCallsInit /\ [][CallerNext]_vars

\* ------------------------------------------------------------------ claims

\* The vocabulary of the claims about apply(term1, term2).
T1 == strip(term1)
T2 == strip(term2)
P1 == decompose(T1)
P2 == decompose(T2)
\* apply has returned (or raised) on term1 and term2.
Applied == result.raised # "NoCall"
\* apply reached its rule checks: both terms and both decompositions non-empty.
AtBoundary == Applied /\ T1 # << >> /\ T2 # << >> /\ P1 # << >> /\ P2 # << >>
LastPhoneme == P1[Len(P1)]
FirstPhoneme == P2[1]
\* The id of the rule a returned result cites; None if it cites no rule.
CitedId ==
    IF result.value.rule_applied = NoRef THEN None
    ELSE sutras[result.value.rule_applied].id
\* The result is a normal return citing rule rid with confidence 1.0.
Cites(rid) ==
    /\ result.raised = None
    /\ result.value.rule_applied # NoRef
    /\ CitedId = rid
    /\ result.value.confidence = 1
\* The result is a normal return with no rule and the given confidence.
CitesNothing(confidence) ==
    /\ result.raised = None
    /\ result.value.rule_applied = NoRef
    /\ result.value.confidence = confidence

\* The glyph classes of the orthography.
VowelGlyphs == {"A", "AA", "I", "II", "U", "UU", "R", "RR", "L", "E", "AI", "O", "AU"}
SignGlyphs ==
    {"mAA", "mI", "mII", "mU", "mUU", "mR", "mRR", "mL", "mE", "mAI", "mO", "mAU"}
MarkGlyphs == {"ANUSVARA", "VISARGA"}
ConsonantGlyphs == HAL \ MarkGlyphs
RecognisedGlyphs == VowelGlyphs \cup SignGlyphs \cup ConsonantGlyphs \cup MarkGlyphs \cup {"VIRAMA"}

\* Well-formed syllable structure as the claim words it: only recognised glyphs,
\* a dependent-vowel sign or a suppressor only directly after a consonant glyph,
\* a nasalization or aspiration mark only after a glyph that carries a vowel
\* (or after another mark).
WellFormed(x) ==
    \A k \in 1..Len(x) :
        /\ x[k] \in RecognisedGlyphs
        /\ x[k] \in SignGlyphs \cup {"VIRAMA"} => (k > 1 /\ x[k - 1] \in ConsonantGlyphs)
        /\ x[k] \in MarkGlyphs =>
             (k > 1 /\ x[k - 1] \in VowelGlyphs \cup SignGlyphs \cup ConsonantGlyphs \cup MarkGlyphs)

\* A suppressor directly followed by an independent vowel glyph.
SuppressorBeforeVowel(x) ==
    \E k \in 1..(Len(x) - 1) : x[k] = "VIRAMA" /\ x[k + 1] \in VowelGlyphs

\* C1 as stated: for every well-formed text of recognised glyphs,
\* recompose(decompose(text)) = text.
C1_RoundTripAsStated ==
    (calls = 2 /\ WellFormed(text)) => recomposed = text

\* C1 as amended: for every well-formed text of recognised glyphs in which no
\* suppressor is directly followed by an independent vowel glyph,
\* recompose(decompose(text)) = text.
C1_RoundTrip ==
    (calls = 2 /\ WellFormed(text) /\ ~SuppressorBeforeVowel(text)) => recomposed = text

\* C1 witness: the cluster k-ti, with a suppressor and a dependent-vowel sign,
\* has been decomposed and recomposed to itself.
C1_Witness ==
    /\ calls = 2
    /\ text = <<"KA", "VIRAMA", "TA_D", "mI">>
    /\ WellFormed(text) /\ ~SuppressorBeforeVowel(text)
    /\ phonemes = <<KA, TA_D, I>>
    /\ recomposed = text

\* The simple-vowel class of the claim: a aa i ii u uu r rr l.
SimpleVowels == {"A", "AA", "I", "II", "U", "UU", "R", "RR", "L"}
\* The semivowel-derivable class of the claim: i ii u uu r rr l.
SemivowelDerivable == {"I", "II", "U", "UU", "R", "RR", "L"}

\* The four triggers of the rule table, on the boundary phonemes.
LengtheningTriggerOf(last, first) ==
    /\ last.is_vowel /\ first.is_vowel
    /\ last.place = first.place
    /\ last.symbol \in SimpleVowels
VrddhiTriggerOf(last, first) ==
    /\ last.symbol \in {"A", "AA"}
    /\ first.symbol \in {"E", "AI", "O", "AU"}
GunaTriggerOf(last, first) ==
    /\ last.symbol \in {"A", "AA"}
    /\ first.symbol \in {"I", "II", "U", "UU", "R", "RR", "L"}
SemivowelTriggerOf(last, first) ==
    /\ last.symbol \in SemivowelDerivable
    /\ first.is_vowel
LengtheningTrigger == LengtheningTriggerOf(LastPhoneme, FirstPhoneme)
VrddhiTrigger == VrddhiTriggerOf(LastPhoneme, FirstPhoneme)
GunaTrigger == GunaTriggerOf(LastPhoneme, FirstPhoneme)
SemivowelTrigger == SemivowelTriggerOf(LastPhoneme, FirstPhoneme)

\* C2: whenever the boundary satisfies the vowel-lengthening trigger (both
\* vowels, same place of articulation, last a simple vowel), apply cites 6.1.101.
C2_LengtheningPrecedes ==
    (AtBoundary /\ LengtheningTrigger) => Cites("6.1.101")

\* The long vowel of the class of a simple vowel other than l.
LongOf(sym) ==
    CASE sym \in {"A", "AA"} -> AA
      [] sym \in {"I", "II"} -> II
      [] sym \in {"U", "UU"} -> UU
      [] sym \in {"R", "RR"} -> RR

\* The boundary is a/aa + a/aa, i/ii + i/ii, u/uu + u/uu or r/rr + r/rr.
SameClassPair ==
    \E class \in {{"A", "AA"}, {"I", "II"}, {"U", "UU"}, {"R", "RR"}} :
        LastPhoneme.symbol \in class /\ FirstPhoneme.symbol \in class

\* C3: when the boundary is a/aa + a/aa, i/ii + i/ii, u/uu + u/uu or r/rr + r/rr,
\* the two boundary phonemes are replaced by the one long vowel of the class,
\* modified is the recomposed sequence, the rule cited is 6.1.101 and the
\* confidence is 1.0.
C3_Lengthening ==
    (AtBoundary /\ SameClassPair) =>
        /\ Cites("6.1.101")
        /\ result.value.modified =
             recompose(ButLast(P1) \o <<LongOf(LastPhoneme.symbol)>> \o Rest(P2))

\* C3 witness: deva + aalaya has given devaalaya under 6.1.101.
C3_Witness ==
    /\ term1 = <<"DA_D", "mE", "VA">>
    /\ term2 = <<"AA", "LA", "YA">>
    /\ AtBoundary /\ SameClassPair
    /\ result.value.modified = <<"DA_D", "mE", "VA", "mAA", "LA", "YA">>
    /\ Cites("6.1.101")

\* The guna of a first vowel i ii u uu r rr l after a/aa.
GunaOf(sym) ==
    CASE sym \in {"I", "II"} -> <<E>>
      [] sym \in {"U", "UU"} -> <<O>>
      [] sym \in {"R", "RR"} -> <<A, RA>>
      [] sym = "L" -> <<A, LA>>

\* C4: when the last phoneme is a/aa and the first is i/ii, u/uu, r/rr or l, the
\* two boundary phonemes are replaced by e, o, [a, r] or [a, l], the rule cited
\* is 6.1.87 and the confidence is 1.0.
C4_Guna ==
    (AtBoundary /\ GunaTrigger) =>
        /\ Cites("6.1.87")
        /\ result.value.modified =
             recompose(ButLast(P1) \o GunaOf(FirstPhoneme.symbol) \o Rest(P2))

\* C4 witness: ka + R (vocalic r) has given kar, written KA RA VIRAMA.
C4_Witness ==
    /\ term1 = <<"KA">>
    /\ term2 = <<"R">>
    /\ AtBoundary /\ GunaTrigger
    /\ result.value.modified = <<"KA", "RA", "VIRAMA">>
    /\ Cites("6.1.87")

\* C5: when the last phoneme is a/aa and the first is e or ai, the two boundary
\* phonemes are replaced by ai; when the first is o or au, by au; the rule
\* cited is 6.1.88 and the confidence is 1.0.
C5_Vrddhi ==
    (AtBoundary /\ VrddhiTrigger) =>
        /\ Cites("6.1.88")
        /\ result.value.modified =
             recompose(ButLast(P1)
                       \o <<IF FirstPhoneme.symbol \in {"E", "AI"} THEN AI ELSE AU>>
                       \o Rest(P2))

\* C5 witness: ka + O ka has given kau ka, written KA mAU KA.
C5_Witness ==
    /\ term1 = <<"KA">>
    /\ term2 = <<"O", "KA">>
    /\ AtBoundary /\ VrddhiTrigger
    /\ result.value.modified = <<"KA", "mAU", "KA">>
    /\ Cites("6.1.88")

\* The semivowel of a member of the semivowel-derivable class.
SemivowelOf(sym) ==
    CASE sym \in {"I", "II"} -> YA
      [] sym \in {"U", "UU"} -> VA
      [] sym \in {"R", "RR"} -> RA
      [] sym = "L" -> LA

\* C6: when the last phoneme is i ii u uu r rr or l, the first is a vowel and
\* vowel lengthening did not fire, only the last phoneme of term1 is replaced,
\* by its semivowel; every phoneme of term2 is kept; the rule cited is 6.1.77
\* and the confidence is 1.0.
C6_Semivowel ==
    (AtBoundary /\ SemivowelTrigger /\ CitedId # "6.1.101") =>
        /\ Cites("6.1.77")
        /\ result.value.modified =
             recompose(ButLast(P1) \o <<SemivowelOf(LastPhoneme.symbol)>> \o P2)

\* C6 witness: ki + A has given kya, written KA VIRAMA YA, the a of term2 kept
\* as the inherent vowel of the semivowel.
C6_Witness ==
    /\ term1 = <<"KA", "mI">>
    /\ term2 = <<"A">>
    /\ AtBoundary /\ SemivowelTrigger
    /\ result.value.modified = <<"KA", "VIRAMA", "YA">>
    /\ decompose(result.value.modified) = <<KA, YA, A>>
    /\ Cites("6.1.77")

\* C7: when both terms and both decompositions are non-empty and none of the
\* four triggers holds (in particular when the first phoneme of term2 is not a
\* vowel), apply returns no rule, confidence 0.0 and the trimmed term1, one
\* space, the trimmed term2.
C7_NoMatch ==
    (AtBoundary /\ ( \/ ~FirstPhoneme.is_vowel
                     \/ ~(LengtheningTrigger \/ VrddhiTrigger \/ GunaTrigger \/ SemivowelTrigger) )) =>
        /\ CitesNothing(0)
        /\ result.value.modified = T1 \o <<"SPACE">> \o T2

\* C7 witness: ka + ta has returned "ka ta" with no rule.
C7_Witness ==
    /\ term1 = <<"KA">>
    /\ term2 = <<"TA_D">>
    /\ AtBoundary /\ ~FirstPhoneme.is_vowel
    /\ CitesNothing(0)
    /\ result.value.modified = <<"KA", "SPACE", "TA_D">>

\* C8: if either term is empty after trimming, or either trimmed term
\* decomposes to no phoneme, apply returns the two trimmed terms concatenated,
\* no rule and confidence 1.0.
C8_ShortCircuit ==
    (Applied /\ (T1 = << >> \/ T2 = << >> \/ P1 = << >> \/ P2 = << >>)) =>
        /\ CitesNothing(1)
        /\ result.value.modified = T1 \o T2

\* C8 witness: a term of one unrecognised glyph, which is not empty but
\* decomposes to nothing, has been joined to a vowel-initial term.
C8_Witness ==
    /\ term1 = <<"DIGIT">>
    /\ term2 = <<"A", "SPACE">>
    /\ Applied /\ T1 # << >> /\ P1 = << >>
    /\ CitesNothing(1)
    /\ result.value.modified = <<"DIGIT", "A">>

\* C9: every result of apply has confidence 0.0 or 1.0; a rule is cited only
\* with confidence 1.0 and is one of 6.1.77, 6.1.87, 6.1.88, 6.1.101 (the
\* lookup never fails); confidence 0.0 comes only with no rule; original is
\* the trimmed term1, " + ", the trimmed term2.
C9_ResultInvariant ==
    Applied =>
        /\ result.raised = None
        /\ result.value.confidence \in {0, 1}
        /\ result.value.rule_applied # NoRef =>
             /\ result.value.confidence = 1
             /\ result.value.rule_applied \in DOMAIN sutras
             /\ CitedId \in {"6.1.77", "6.1.87", "6.1.88", "6.1.101"}
        /\ result.value.confidence = 0 => result.value.rule_applied = NoRef
        /\ result.value.original = T1 \o <<"SPACE", "PLUS", "SPACE">> \o T2

\* C9 witness: a call on terms with surrounding whitespace has cited 6.1.88.
C9_Witness ==
    /\ term1 = <<"SPACE", "AA">>
    /\ term2 = <<"AI", "SPACE">>
    /\ Applied
    /\ CitedId = "6.1.88"
    /\ result.value.original = <<"AA", "SPACE", "PLUS", "SPACE", "AI">>

\* C10: on one engine, after any sequence of apply, explain and list_rules
\* calls, apply(a, b) returns what the first apply(a, b) returned (original,
\* modified, rule and confidence), and explain(text) returns what the first
\* explain(text) returned.
C10_Determinism ==
    /\ Applied => (<<term1, term2>> \in DOMAIN seen /\ result = seen[<<term1, term2>>])
    /\ text \in DOMAIN seenHints => hints = seenHints[text]

\* C10 witness: after four calls, the last one an apply that repeated the
\* arguments a + agni of an earlier call and again cited 6.1.101, an explain
\* call having been made in between.
C10_Witness ==
    /\ calls = 4
    /\ repeated
    /\ term1 = <<"A">>
    /\ term2 = <<"A", "GA", "VIRAMA", "NA_D", "mI">>
    /\ result = seen[<<term1, term2>>]
    /\ Cites("6.1.101")
    /\ seenHints # << >>
    /\ listed # NoList

\* C11 (as stated): nothing a caller does to a returned result, the fields of
\* its matched rule included, changes the rule table or a later apply: the
\* Sutra objects of the table keep the fields they were constructed with, and
\* no apply call fails to find its rule.
C11_NoSharedState ==
    /\ \A k \in 1..Len(_RULES) : sutras[_RULES[k]] = SutraObjects[_RULES[k]]
    /\ result.raised \in {None, "NoCall"}

\* C12: after any sequence of apply, explain and list_rules calls, and whatever
\* a caller does to the list that list_rules returned, the engine's table holds
\* exactly the four rules 6.1.77, 6.1.87, 6.1.88 and 6.1.101 (so at least four).
C12_RuleTableReadOnly ==
    /\ Len(rules) >= 4
    /\ [k \in 1..Len(rules) |-> sutras[rules[k]].id]
         = <<"6.1.77", "6.1.87", "6.1.88", "6.1.101">>
    /\ \A k \in 1..Len(rules) : sutras[rules[k]] = SutraObjects[rules[k]]
    /\ listed # NoList => listed.identity # "self.rules"

\* C12 witness: after an apply, an explain and a list_rules call the caller
\* has emptied the returned list, and the engine's table still has four rules.
C12_Witness ==
    /\ result.raised = None
    /\ seenHints # << >>
    /\ listed # NoList
    /\ listed.items = << >>
    /\ Len(rules) = 4

\* The vocabulary of the claims about one iteration of decompose's loop.
Scanned == at >= 1
ScanDone == i > Len(text)
GlyphScanned == text[at]
HasNextGlyph == at + 1 <= Len(text)
NextGlyph == text[at + 1]
Advance == i - at

\* C13: decompose terminates on every text, its scan index growing by one or
\* two glyphs in each iteration; no iteration raises; a glyph that is not in
\* the symbol registry produces no phoneme; every phoneme of the output is in
\* the phoneme registry; and the loop's output is decompose(text).
C13_Total ==
    /\ [](scanRaised = None)
    /\ [](Scanned /\ GlyphScanned \notin DOMAIN SYMBOL_MAP => emitted = << >>)
    /\ [](\A k \in 1..Len(phonemes) : phonemes[k] \in PhonemeSet)
    /\ [](ScanDone => phonemes = decompose(text))
    /\ [][i' \in {i + 1, i + 2}]_vars
    /\ <>ScanDone

\* C13 witness: the scan of k-suppressor-digit has ended after two iterations,
\* the second one having skipped the digit.
C13_Witness ==
    /\ text = <<"KA", "VIRAMA", "DIGIT">>
    /\ ScanDone
    /\ at = 3
    /\ emitted = << >>
    /\ phonemes = <<KA>>

\* The vowel phoneme whose dependent sign is the given glyph.
VowelOfSign(sign) == CHOOSE p \in PhonemeSet : p.is_vowel /\ p.as_matra = sign

\* C17: the iteration that scans a consonant glyph emits the consonant and
\* then: before a dependent-vowel sign, that sign's vowel phoneme, advancing two
\* glyphs; before the vowel-suppressor, nothing more, advancing two glyphs;
\* otherwise the inherent short vowel a, advancing one glyph.
C17_ConsonantStep ==
    (Scanned /\ GlyphScanned \in ConsonantGlyphs) =>
        LET c == SYMBOL_MAP[GlyphScanned] IN
        IF HasNextGlyph /\ NextGlyph \in SignGlyphs
          THEN emitted = <<c, VowelOfSign(NextGlyph)>> /\ Advance = 2
        ELSE IF HasNextGlyph /\ NextGlyph = "VIRAMA"
          THEN emitted = <<c>> /\ Advance = 2
        ELSE emitted = <<c, A>> /\ Advance = 1

\* C17 witness: of the text k-suppressor-t the scan has taken the k with its
\* suppressor and then the t, which stays at the end with its inherent a.
C17_Witness ==
    /\ text = <<"KA", "VIRAMA", "TA_D">>
    /\ at = 3
    /\ phonemes = <<KA, TA_D, A>>
    /\ ScanDone

\* C18: when the trimmed term1 of an apply call ends in a consonant glyph, the
\* last phoneme of its decomposition is the inherent short vowel a, and apply
\* treats the term as ending in a: before a, aa it cites 6.1.101, before e,
\* ai, o, au 6.1.88, before i, ii, u, uu, r, rr, l 6.1.87, before a consonant
\* no rule.
C18_TrailingConsonant ==
    (Applied /\ T1 # << >> /\ T1[Len(T1)] \in ConsonantGlyphs) =>
        /\ P1 # << >>
        /\ LastPhoneme = A
        /\ P2 # << >> =>
              /\ FirstPhoneme.symbol \in {"A", "AA"} => Cites("6.1.101")
              /\ FirstPhoneme.symbol \in {"E", "AI", "O", "AU"} => Cites("6.1.88")
              /\ FirstPhoneme.symbol \in {"I", "II", "U", "UU", "R", "RR", "L"}
                    => Cites("6.1.87")
              /\ ~FirstPhoneme.is_vowel => CitesNothing(0)

\* C18 witness: ka + i has returned ke by 6.1.87.
C18_Witness ==
    /\ term1 = <<"KA">>
    /\ term2 = <<"I">>
    /\ LastPhoneme = A
    /\ Cites("6.1.87")
    /\ result.value.modified = <<"KA", "mE">>

\* C19 (as stated): the iteration that scans a nasalization or aspiration glyph
\* emits exactly one phoneme, the modifier itself, and advances one glyph.
C19_ModifierStep ==
    (Scanned /\ GlyphScanned \in MarkGlyphs) =>
        /\ emitted = <<SYMBOL_MAP[GlyphScanned]>>
        /\ Advance = 1

\* C20 (as stated): in recompose, a vowel phoneme whose previous phoneme is a
\* consonant (not a vowel, and not nasalization, aspiration or suppressor)
\* emits nothing if it is the inherent a and its dependent sign otherwise; a
\* vowel at the start, after another vowel or after a modifier emits its
\* independent glyph.
C20_VowelStep ==
    calls = 2 =>
        \A idx \in 1..Len(phonemes) :
            LET p == phonemes[idx]
                afterConsonant ==
                    /\ idx > 1
                    /\ ~phonemes[idx - 1].is_vowel
                    /\ phonemes[idx - 1] \notin {ANUSVARA, VISARGA, VIRAMA}
            IN  p.is_vowel =>
                  recomposeStep(phonemes, idx) =
                      IF afterConsonant
                        THEN (IF p = A THEN << >> ELSE <<p.as_matra>>)
                        ELSE <<p.symbol>>

\* C14: for every binary pattern p of length n >= 1, nashtam(uddishtam(p), n)
\* is p; for every index i with 0 <= i < 2^n, nashtam(i, n) has exactly n
\* digits and uddishtam(nashtam(i, n)) is i.
C14_ExactInverses ==
    /\ patternRestored # << >> => patternRestored = pattern
    /\ (patternOfIndex # << >> /\ index < 2^length) => Len(patternOfIndex) = length
    /\ (indexRestored # NotYet /\ index < 2^length) => indexRestored = index

\* C14 witness: the pattern 0110 has gone to index 6 and back, and the index 5
\* to the pattern 0101 of length 4 and back.
C14_Witness ==
    /\ pattern = <<"0", "1", "1", "0">>
    /\ indexOfPattern = 6
    /\ patternRestored = pattern
    /\ index = 5
    /\ length = 4
    /\ patternOfIndex = <<"0", "1", "0", "1">>
    /\ indexRestored = 5

\* C15 (as stated): for every list of flat dicts, compress returns a blob and
\* decompress of that blob is the list itself: the same rows in the same
\* order, each with the same keys and values.
C15_Lossless ==
    /\ blob.raised \in {None, "NoCall"}
    /\ restored.done => restored.rows = data

\* C16: validate on an empty or whitespace-only text returns is_valid False
\* with the single error "Empty input." and nothing from the analysis stages
\* (no suggestion, no grammar pattern, no semantic graph, no meter); on every
\* text with at least one word is_valid stays True and grammar_patterns has
\* exactly the keys sandhi, samasa, vibhakti and dhatu.
C16_EmptyInput ==
    validation.returned =>
        LET r == validation.result IN
        IF \A k \in 1..Len(text) : text[k] \in Whitespace
          THEN /\ r.is_valid = FALSE
               /\ r.errors = <<"Empty input.">>
               /\ r.suggestions = << >>
               /\ r.grammar_patterns = << >>
               /\ r.semantic_graph = None
               /\ r.meter = None
          ELSE /\ r.is_valid = TRUE
               /\ r.errors = << >>
               /\ DOMAIN r.grammar_patterns = {"sandhi", "samasa", "vibhakti", "dhatu"}

\* C16 witness: validate has returned on a text of two whitespace glyphs,
\* with is_valid False and the error "Empty input.".
C16_Witness ==
    /\ text = <<"SPACE", "SPACE">>
    /\ validation.returned
    /\ validation.result.is_valid = FALSE
    /\ validation.result.errors = <<"Empty input.">>

\* C21: in recompose, a consonant phoneme emits its glyph, followed by the
\* vowel-suppressor exactly when the next phoneme is absent or is not a vowel;
\* a nasalization, aspiration or suppressor phoneme emits its own glyph only.
\* The text recompose returns is these emissions, and those of the vowels, in
\* order.
C21_ConsonantStep ==
    calls = 2 =>
        /\ \A idx \in 1..Len(phonemes) :
              LET p == phonemes[idx]
                  bare == idx = Len(phonemes) \/ ~phonemes[idx + 1].is_vowel
              IN  ~p.is_vowel =>
                    recomposeStep(phonemes, idx) =
                        IF p \in {ANUSVARA, VISARGA, VIRAMA} THEN <<p.symbol>>
                        ELSE IF bare THEN <<p.symbol, "VIRAMA">>
                        ELSE <<p.symbol>>
        /\ recomposed = recomposeFrom(phonemes, 1)

\* C21 witness: k-suppressor-t-suppressor has been decomposed to [k, t] and
\* recomposed with a suppressor after each of the two bare consonants.
C21_Witness ==
    /\ calls = 2
    /\ phonemes = <<KA, TA_D>>
    /\ recomposed = <<"KA", "VIRAMA", "TA_D", "VIRAMA">>

\* C22 (as stated): for every text x and s = decompose(x),
\* decompose(recompose(s)) = s.
C22_InverseOnProduced ==
    calls = 2 => decompose(recomposed) = phonemes

\* Every vowel-suppressor glyph of x directly follows a consonant glyph.
SuppressorsOnConsonants(x) ==
    \A k \in 1..Len(x) : x[k] = "VIRAMA" => (k > 1 /\ x[k - 1] \in ConsonantGlyphs)

\* C22 (amended): for every text x in which every vowel-suppressor glyph
\* directly follows a consonant glyph, and s = decompose(x),
\* decompose(recompose(s)) = s.
C22_InverseOnConformant ==
    (calls = 2 /\ SuppressorsOnConsonants(text)) => decompose(recomposed) = phonemes

\* C22 witness: k-suppressor-t-i has been decomposed to [k, t, i] and
\* recomposed, and the recomposed text decomposes to [k, t, i] again.
C22_Witness ==
    /\ calls = 2
    /\ text = <<"KA", "VIRAMA", "TA_D", "mI">>
    /\ phonemes = <<KA, TA_D, I>>
    /\ decompose(recomposed) = phonemes

\* apply has returned a result that cites a rule.
Matched == AtBoundary /\ result.raised = None /\ result.value.rule_applied # NoRef
\* The phoneme sequence apply handed to recompose.
NewPhonemes == junction(P1, P2).new_phonemes

\* C23: when a rule matches, the sequence handed to recompose starts with p1
\* without its last phoneme; then, for 6.1.101, 6.1.88 and 6.1.87, comes the
\* merge result and p2 without its first phoneme; for 6.1.77, the semivowel
\* and all of p2.  Nothing else is added, dropped or reordered.
C23_Frame ==
    Matched =>
        LET m == NewPhonemes
            kept == Len(P1) - 1
            middle == CASE CitedId = "6.1.101" -> <<LongOf(LastPhoneme.symbol)>>
                        [] CitedId = "6.1.88" ->
                             <<IF FirstPhoneme.symbol \in {"E", "AI"} THEN AI ELSE AU>>
                        [] CitedId = "6.1.87" -> GunaOf(FirstPhoneme.symbol)
                        [] CitedId = "6.1.77" -> <<SemivowelOf(LastPhoneme.symbol)>>
            tail == IF CitedId = "6.1.77" THEN P2 ELSE Rest(P2)
        IN  /\ junction(P1, P2).rule = CitedId
            /\ result.value.modified = recompose(m)
            /\ Len(m) = kept + Len(middle) + Len(tail)
            /\ \A k \in 1..kept : m[k] = P1[k]
            /\ \A k \in 1..Len(middle) : m[kept + k] = middle[k]
            /\ \A k \in 1..Len(tail) : m[kept + Len(middle) + k] = tail[k]

\* C23 witness: a + indrah has matched 6.1.87: the a and the i are replaced
\* by e, and the rest of indrah follows as in term2.
C23_Witness ==
    /\ term1 = <<"A">>
    /\ term2 = <<"I", "NA_D", "VIRAMA", "DA_D", "VIRAMA", "RA", "VISARGA">>
    /\ Matched
    /\ Cites("6.1.87")
    /\ NewPhonemes = <<E>> \o Rest(P2)
    /\ Len(NewPhonemes) = Len(P2)

\* The hints in the order explain tests for them, and the literal substrings
\* each test looks for.
HintOrder ==
    <<"Possible Yan Sandhi (6.1.77)", "Possible Guna Sandhi (6.1.87)",
      "Possible Vrddhi Sandhi (6.1.88)", "Possible Savarna Dirgha (6.1.101)">>
HintTriggers ==
    <<{<<"VIRAMA", "YA">>, <<"VIRAMA", "VA">>}, {<<"mE">>, <<"mO">>},
      {<<"mAI">>, <<"mAU">>}, {<<"mAA">>, <<"mII">>, <<"mUU">>}>>
\* The place of a hint in the fixed order.
HintPlace(h) == CHOOSE n \in 1..Len(HintOrder) : HintOrder[n] = h
\* explain has returned.
Explained == calls = 1

\* C24: the list explain returns holds only the four hints, in the fixed order
\* semivowel, guna, vrddhi, lengthening and each at most once; a hint is in the
\* list exactly when one of its own trigger substrings occurs in the text,
\* whatever the other hints do, so the list is empty when none occurs; and the
\* call leaves no decomposition behind.
C24_Hints ==
    Explained =>
        /\ \A k \in 1..Len(hints) : \E n \in 1..Len(HintOrder) : hints[k] = HintOrder[n]
        /\ \A j, k \in 1..Len(hints) : j < k => HintPlace(hints[j]) < HintPlace(hints[k])
        /\ \A n \in 1..Len(HintOrder) :
              (\E k \in 1..Len(hints) : hints[k] = HintOrder[n])
                  <=> (\E needle \in HintTriggers[n] : Contains(text, needle))
        /\ ((\A n \in 1..Len(HintOrder) : \A needle \in HintTriggers[n] :
                 ~Contains(text, needle)) => hints = << >>)
        /\ phonemes = << >>

\* C24 witness: a text with the semivowel trigger and a vrddhi sign gets both
\* hints, the semivowel hint first.
C24_Witness ==
    /\ Explained
    /\ text = <<"VIRAMA", "YA", "mAU">>
    /\ hints = <<HintOrder[1], HintOrder[3]>>

\* The words of the validated text, and the calls of one method among those
\* validate made on the engine.
Words == split(strip(text))
CallsOf(method) == SelectSeq(sandhiCalls, LAMBDA c : c.method = method)

\* C25 (as stated): when validate has returned for a text of n >= 1 words, it
\* has called apply once for each adjacent pair of words, in order (n - 1
\* calls), and explain once, on the text.
C25_CallProtocol ==
    (validation.returned /\ Len(Words) >= 1) =>
        /\ CallsOf("apply") =
              [k \in 1..(Len(Words) - 1) |-> EngineCall("apply", <<Words[k], Words[k + 1]>>)]
        /\ CallsOf("explain") = <<EngineCall("explain", <<text>>)>>

\* C26 (as stated): when the trimmed term1 ends in a nasalization or
\* aspiration glyph and apply reaches its rule checks, the last phoneme of
\* term1 is that modifier, and apply returns no rule, confidence 0.0 and the
\* two trimmed terms joined by one space.
C26_ModifierFinal ==
    (AtBoundary /\ T1[Len(T1)] \in MarkGlyphs) =>
        /\ LastPhoneme = SYMBOL_MAP[T1[Len(T1)]]
        /\ CitesNothing(0)
        /\ result.value.modified = T1 \o <<"SPACE">> \o T2

\* C27 (as stated): whenever apply matches a rule, decomposing the modified
\* text gives back the phoneme sequence that apply handed to recompose.
C27_FaithfulOutput ==
    Matched => decompose(result.value.modified) = NewPhonemes

\* N(x) = recompose(decompose(x)).
Normalise(x) == recompose(decompose(x))

\* C28 (as stated): for every text x, N(N(x)) = N(x).
C28_IdempotentOnAll ==
    calls = 2 => Normalise(recomposed) = recomposed

\* C28 (amended): for every text x in which every vowel-suppressor glyph
\* directly follows a consonant glyph, N(N(x)) = N(x); x may hold unrecognised
\* glyphs, stray dependent-vowel signs and marks anywhere.
C28_IdempotentOnConformant ==
    (calls = 2 /\ SuppressorsOnConsonants(text)) => Normalise(recomposed) = recomposed

\* C28 witness: a text with an unrecognised glyph and a stray sign has been
\* normalised to a different text, which normalises to itself.
C28_Witness ==
    /\ calls = 2
    /\ text = <<"KA", "VIRAMA", "DIGIT", "mI">>
    /\ recomposed # text
    /\ Normalise(recomposed) = recomposed

\* How many of the given conditions hold.
HowMany(conditions) == Cardinality({k \in DOMAIN conditions : conditions[k]})

\* The overlap of the four triggers on one pair of boundary phonemes: at most
\* one of lengthening, vrddhi and guna; two of the four only as lengthening
\* and semivowel substitution together; lengthening only on two simple vowels
\* of one place of articulation.
OverlapOnlyOfLengtheningAndSemivowel(last, first) ==
    LET three == <<LengtheningTriggerOf(last, first), VrddhiTriggerOf(last, first),
                   GunaTriggerOf(last, first)>>
        four == Append(three, SemivowelTriggerOf(last, first))
    IN  /\ HowMany(three) <= 1
        /\ HowMany(four) <= 2
        /\ HowMany(four) = 2 => (four[1] /\ four[4])
        /\ four[1] => /\ last.symbol \in SimpleVowels
                       /\ first.symbol \in SimpleVowels
                       /\ last.place = first.place

\* The overlap condition on every pair of phonemes of the registry.
OverlapOnRegistry ==
    \A last, first \in PhonemeSet : OverlapOnlyOfLengtheningAndSemivowel(last, first)

\* C29: over every pair of phonemes of the registry, and at every junction
\* the rule checks of apply see, at most one of the triggers of lengthening,
\* vrddhi and guna holds, and two of the four triggers hold together only if
\* they are those of lengthening and semivowel substitution; when lengthening
\* fires (its trigger holds, or 6.1.101 is cited) both boundary phonemes are
\* simple vowels of one place of articulation.
C29_TriggerOverlap ==
    /\ OverlapOnRegistry
    /\ AtBoundary =>
          /\ OverlapOnlyOfLengtheningAndSemivowel(LastPhoneme, FirstPhoneme)
          /\ (result.raised = None /\ CitedId = "6.1.101") =>
                /\ LastPhoneme.symbol \in SimpleVowels
                /\ FirstPhoneme.symbol \in SimpleVowels
                /\ LastPhoneme.place = FirstPhoneme.place

\* C29 witness: at i + ii both the lengthening and the semivowel trigger hold,
\* and apply has cited 6.1.101.
C29_Witness ==
    /\ AtBoundary
    /\ LastPhoneme = I /\ FirstPhoneme = II
    /\ LengtheningTrigger /\ SemivowelTrigger
    /\ Cites("6.1.101")

\* C30: apply returns what it returns on the two trimmed terms; when a rule
\* matches, every glyph of modified is a registry symbol, a dependent-vowel sign
\* or the suppressor, so the unrecognised glyphs of the terms are gone; when no
\* rule is cited (no match, or a short circuit), modified is the trimmed term1
\* and the trimmed term2, as they are, with one space or nothing between them.
C30_TrimmedAndFiltered ==
    (Applied /\ result.raised = None) =>
        /\ result = apply(T1, T2)
        /\ result.value.rule_applied # NoRef =>
              \A k \in 1..Len(result.value.modified) :
                  result.value.modified[k] \in RecognisedGlyphs
        /\ result.value.rule_applied = NoRef =>
              /\ result.value.modified \in {T1 \o T2, T1 \o <<"SPACE">> \o T2}
              /\ Contains(result.value.modified, T1)
              /\ Contains(result.value.modified, T2)

\* C30 witness: ka-digit + a-space has matched 6.1.101: the space is trimmed,
\* the digit is dropped, and modified is kaa.
C30_Witness ==
    /\ term1 = <<"KA", "DIGIT">>
    /\ term2 = <<"A", "SPACE">>
    /\ T2 = <<"A">>
    /\ Cites("6.1.101")
    /\ result.value.modified = <<"KA", "mAA">>

====
